---- MODULE Spec2Model ----
(***************************************************************************)
(* A model of the ivy parser and expression evaluator (parse/parse.go, the *)
(* context-routed revision, lines 479-1169) together with the String value *)
(* (value/string.go).                                                      *)
(*                                                                         *)
(* A session is a sequence of source lines.  The scanner hands the tokens  *)
(* of each line to Parser.Line, which buffers them up to the newline and   *)
(* parses them into expression trees; the line driver then evaluates the   *)
(* trees against the execution context.  Vectors are Go slices: a Vector   *)
(* value is a reference (addr) to a backing array kept in heap, so that    *)
(* the in-place writes of an indexed assignment are seen through every     *)
(* reference to the same array.                                            *)
(***************************************************************************)
EXTENDS Integers, Sequences, FiniteSets, TLC

VARIABLES
    input,      \* tokens the scanner has not yet delivered
    tokens,     \* Parser.tokens: the buffered tokens of the current line
    pc,         \* "idle" | "read" | "parse" | "run" | "eof" | "crashed"
    exprs,      \* trees returned by the last call of Line
    lineOk,     \* the boolean returned by the last call of Line
    globals,    \* Context: symbol table, name -> Value (Nil when unbound)
    heap,       \* backing arrays of the Vectors, addressed by position
    unaryOps,   \* Context: names registered as unary operators
    binaryOps,  \* Context: names registered as binary operators
    origin,     \* Config.Origin(): index of the first element
    outcome,    \* how the last line ended: [st, err]
    values,     \* values the driver got from the last line's trees
    obs,        \* calls made on the Context while the last line was evaluated
    source,     \* the source line being processed, as typed
    errLines,   \* source line numbers on which an error was reported
    nlines,     \* number of source lines typed so far
    family,     \* which family of source lines this session draws from
    before,     \* the Context as it was when the current line was typed
    rt,         \* the last line's trees printed, parsed again and evaluated
    str,        \* a String value, as its sequence of code points
    conv        \* the result of converting str with toType

\* The state of a conversion of a String value.
valueVars == << str, conv >>

vars == << input, tokens, pc, exprs, lineOk, globals, heap, unaryOps,
           binaryOps, origin, outcome, values, obs, source, errLines, nlines,
           family, before, rt, str, conv >>

(***************************************************************************)
(* Bounds of the model.                                                    *)
(***************************************************************************)
\* Number of source lines typed in one session.
MaxLines == 4

\* Number of code points of a String that is converted.
MaxLen == 3

(***************************************************************************)
(* Values.  Every value is a record with a kind k.                         *)
(***************************************************************************)
Nil == [k |-> "nil"]

IntVal(n) == [k |-> "Int", n |-> n]

BigRat(t) == [k |-> "BigRat", text |-> t]

Char(c) == [k |-> "Char", c |-> c]

\* A String is a sequence of code points.
String(s) == [k |-> "String", s |-> s]

\* A Vector is a slice: a reference to a backing array.
Vector(a) == [k |-> "Vector", addr |-> a]

Map(m) == [k |-> "Map", m |-> m]

Assignment(v) == [k |-> "Assignment", v |-> v]

ScalarKinds == {"Int", "Char", "BigInt", "BigRat", "BigFloat", "String"}

ValueKinds == ScalarKinds \cup {"Vector", "Matrix", "Map", "Assignment"}

\* Assignment embeds value.Value, so Inner is the inner value's Inner; every
\* other value is its own Inner.
Inner(v) == IF v.k = "Assignment" THEN v.v ELSE v

isScalar(v) ==
    IF v.k = "Assignment" THEN v.v.k \in ScalarKinds ELSE v.k \in ScalarKinds

\* The backing array of a Vector and its length.
Elems(c, vec) == c.heap[vec.addr]

len(c, vec) == Len(c.heap[vec.addr])

\* A value as it reads through the heap h: a Vector with its elements in
\* place of its address.  (No line of the model builds a cyclic vector.)
RECURSIVE Deep(_, _)
Deep(h, v) ==
    CASE v.k = "Vector" ->
            [k |-> "Vector",
             elems |-> [i \in 1..Len(h[v.addr]) |-> Deep(h, h[v.addr][i])]]
      [] v.k = "Map" -> [k |-> "Map", m |-> [n \in DOMAIN v.m |-> Deep(h, v.m[n])]]
      [] v.k = "Assignment" -> [k |-> "Assignment", v |-> Deep(h, v.v)]
      [] OTHER -> v

(***************************************************************************)
(* Expression trees.  Values are expressions too (they evaluate to         *)
(* themselves).                                                            *)
(***************************************************************************)
variableExpr(name) == [k |-> "var", name |-> name]

unary(op, right) == [k |-> "unary", op |-> op, right |-> right]

binary(left, op, right) ==
    [k |-> "binary", op |-> op, left |-> left, right |-> right]

sliceExpr(elems) == [k |-> "slice", elems |-> elems]

mapExpr(elems) == [k |-> "map", elems |-> elems]

NoExpr == [k |-> "none"]

(***************************************************************************)
(* The execution context during the evaluation of a line: the symbol       *)
(* table, the heap, the result so far and the calls observed.              *)
(*   st  = "ok" | "error" (value.Errorf) | "panic" (a Go run-time panic)   *)
(***************************************************************************)
Names == {"x", "y", "v", "w", "u", "f", "g"}

Errorf(c, msg) == [c EXCEPT !.st = "error", !.err = msg, !.val = Nil]

Panic(c, msg) == [c EXCEPT !.st = "panic", !.err = msg, !.val = Nil]

Return(c, v) == [c EXCEPT !.val = v]

\* A name the symbol table does not hold is looked up as nil.
Lookup(c, name) ==
    IF name \in DOMAIN c.globals THEN c.globals[name] ELSE Nil

Assign(c, name, val) ==
    [c EXCEPT !.globals[name] = val,
              !.obs = Append(@, [fn |-> "Assign", name |-> name,
                                 val |-> Deep(c.heap, val)])]

NewVector(c, elems) ==
    [c EXCEPT !.heap = Append(@, elems), !.val = Vector(Len(c.heap) + 1)]

\* A[i] = val on the backing array at addr (i is a Go index, from 0).
Store(c, addr, i, val) ==
    [c EXCEPT !.heap[addr][i + 1] = val,
              !.obs = Append(@, [fn |-> "Store", i |-> i,
                                 val |-> Deep(c.heap, val)])]

(***************************************************************************)
(* Context.EvalUnary and Context.EvalBinary: the built-in "-" and "+" on   *)
(* Int, indexing, and the user-defined operators (whose body here is the   *)
(* identity on the right operand).  Every call is recorded in obs.         *)
(***************************************************************************)
EvalUnary(c, op, v) ==
    LET c1 == [c EXCEPT !.obs = Append(@, [fn |-> "EvalUnary", op |-> op,
                                           right |-> Deep(c.heap, v)])]
    IN  IF op \in unaryOps THEN Return(c1, v)
        ELSE IF op = "-" /\ v.k = "Int" THEN Return(c1, IntVal(0 - v.n))
        ELSE Errorf(c1, "unary op not implemented for operand")

EvalBinary(c, u, op, v) ==
    LET c1 == [c EXCEPT !.obs = Append(@, [fn |-> "EvalBinary", op |-> op,
                                           left |-> Deep(c.heap, u),
                                           right |-> Deep(c.heap, v)])]
    IN  IF op \in binaryOps THEN Return(c1, v)
        ELSE IF op = "+" /\ u.k = "Int" /\ v.k = "Int"
            THEN Return(c1, IntVal(u.n + v.n))
        ELSE IF op = "[]" /\ u.k = "Vector" /\ v.k = "Int"
            THEN IF v.n - origin < 0 \/ v.n - origin >= len(c1, u)
                 THEN Errorf(c1, "index out of range")
                 ELSE Return(c1, Elems(c1, u)[v.n - origin + 1])
        ELSE Errorf(c1, "binary op not implemented for operands")

(***************************************************************************)
(* binary.Eval, indexed assignment with a vector of indexes                *)
(* (parse.go 729-751).                                                     *)
(***************************************************************************)
\* The first pass: every index is an Int and, less origin, within A.
RECURSIVE CheckIndexesFrom(_, _, _, _)
CheckIndexesFrom(c, A, Ai, i) ==
    IF i > Len(Ai) THEN c
    ELSE IF Ai[i].k # "Int" THEN Errorf(c, "index must be integer")
    ELSE IF Ai[i].n - origin < 0 \/ len(c, A) <= Ai[i].n - origin
        THEN Errorf(c, "index out of range")
    ELSE CheckIndexesFrom(c, A, Ai, i + 1)

CheckIndexes(c, A, Ai) == CheckIndexesFrom(c, A, Ai, 1)

\* The second pass: A[a - origin] = B[i], in index order, B read as it is
\* when its turn comes.
RECURSIVE SetIndexesFrom(_, _, _, _, _)
SetIndexesFrom(c, A, Ai, B, i) ==
    IF i > Len(Ai) THEN c
    ELSE SetIndexesFrom(Store(c, A.addr, Ai[i].n - origin, Elems(c, B)[i]),
                        A, Ai, B, i + 1)

SetIndexes(c, A, Ai, B) == SetIndexesFrom(c, A, Ai, B, 1)

\* A single pass that checks each index and writes its element at once.
RECURSIVE CheckAndSetFrom(_, _, _, _, _)
CheckAndSetFrom(c, A, Ai, B, i) ==
    IF i > Len(Ai) THEN c
    ELSE IF Ai[i].k # "Int" THEN Errorf(c, "index must be integer")
    ELSE IF Ai[i].n - origin < 0 \/ len(c, A) <= Ai[i].n - origin
        THEN Errorf(c, "index out of range")
    ELSE CheckAndSetFrom(Store(c, A.addr, Ai[i].n - origin, Elems(c, B)[i]),
                         A, Ai, B, i + 1)

AssignIndexesOnePass(c, A, rhs) ==
    IF rhs.k # "Vector" THEN Errorf(c, "rhs must be a matching vector")
    ELSE IF Len(Elems(c, c.val)) # len(c, rhs)
        THEN Errorf(c, "cannot assign slices of differing lengths")
    ELSE CheckAndSetFrom(c, A, Elems(c, c.val), rhs, 1)

\* c holds the evaluated index vector in c.val.
AssignIndexes(c, A, rhs) ==
    LET Ai == Elems(c, c.val)
    IN  IF rhs.k # "Vector" THEN Errorf(c, "rhs must be a matching vector")
        ELSE IF Len(Ai) # len(c, rhs)
            THEN Errorf(c, "cannot assign slices of differing lengths")
        ELSE LET c1 == CheckIndexes(c, A, Ai)
             IN  IF c1.st # "ok" THEN c1 ELSE SetIndexes(c1, A, Ai, rhs)

\* A[single-origin] = rhs: Go checks the index and panics outside the array.
AssignSingle(c, A, single, rhs) ==
    IF single.n - origin < 0 \/ single.n - origin >= len(c, A)
    THEN Panic(c, "runtime error: index out of range")
    ELSE Store(c, A.addr, single.n - origin, rhs)

(***************************************************************************)
(* Eval of each kind of node.                                              *)
(***************************************************************************)
RECURSIVE Eval(_, _)
RECURSIVE sliceFirstPass(_, _, _)
RECURSIVE sliceSecondPass(_, _, _, _)
RECURSIVE mapExprEvalFrom(_, _, _, _)

variableExprEval(c, e) ==
    IF Lookup(c, e.name) = Nil THEN Errorf(c, "undefined variable")
    ELSE Return(c, Lookup(c, e.name))

unaryEval(c, u) ==
    LET c1 == Eval(c, u.right)
    IN  IF c1.st # "ok" THEN c1 ELSE EvalUnary(c1, u.op, Inner(c1.val))

\* The target of an indexed assignment: bl is the "[]" node on the left.
assignIndexed(c, bl, rhs) ==
    IF bl.left.k = "var"
    THEN LET vec == Lookup(c, bl.left.name)
         IN  IF vec = Nil THEN Errorf(c, "not found")
             ELSE IF vec.k # "Vector"
                 THEN Panic(c, "interface conversion: not value.Vector")
             ELSE IF bl.right.k = "Int"
                 THEN AssignSingle(c, vec, bl.right, rhs)
             ELSE IF bl.right.k # "slice"
                 THEN Panic(c, "interface conversion: not parse.sliceExpr")
             ELSE LET c1 == Eval(c, bl.right)
                  IN  IF c1.st # "ok" THEN c1
                      ELSE AssignIndexes(c1, vec, rhs)
    ELSE Errorf(c, "cannot assign")

assignEval(c, b, rhs) ==
    LET c1 == IF b.left.k = "var" THEN Assign(c, b.left.name, rhs)
              ELSE IF b.left.k = "binary" /\ b.left.op = "[]"
                  THEN assignIndexed(c, b.left, rhs)
              \* bl is a nil *binary here and bl.op dereferences it
              ELSE Panic(c, "runtime error: nil pointer dereference")
    IN  IF c1.st # "ok" THEN c1 ELSE Return(c1, Assignment(rhs))

\* An evaluation of the operands from left to right.
binaryEvalLeftFirst(c, b) ==
    IF b.op = "=" THEN
        LET c1 == Eval(c, b.right)
        IN  IF c1.st # "ok" THEN c1 ELSE assignEval(c1, b, Inner(c1.val))
    ELSE LET c1 == Eval(c, b.left)
             c2 == Eval(c1, b.right)
         IN  IF c1.st # "ok" THEN c1
             ELSE IF c2.st # "ok" THEN c2
             ELSE EvalBinary(c2, c1.val, b.op, Inner(c2.val))

binaryEval(c, b) ==
    LET c1 == Eval(c, b.right)
    IN  IF c1.st # "ok" THEN c1
        ELSE IF b.op = "=" THEN assignEval(c1, b, Inner(c1.val))
        ELSE LET rhs == Inner(c1.val)
                 c2 == Eval(c1, b.left)
             IN  IF c2.st # "ok" THEN c2
                 ELSE EvalBinary(c2, c2.val, b.op, rhs)

\* The first loop of sliceExpr.Eval: s[i] = x.Eval(context) for every element
\* that is an assignment.  Gives the context and the rewritten elements.
isAssignNode(x) == x.k = "binary" /\ x.op = "="

\* A first pass that evaluates the assignments and keeps the nodes in place.
RECURSIVE sliceFirstPassKeepNodes(_, _, _)
sliceFirstPassKeepNodes(c, s, i) ==
    IF i > Len(s) \/ c.st # "ok" THEN [c |-> c, s |-> s]
    ELSE IF isAssignNode(s[i])
        THEN sliceFirstPassKeepNodes(Eval(c, s[i]), s, i + 1)
    ELSE sliceFirstPassKeepNodes(c, s, i + 1)

sliceFirstPass(c, s, i) ==
    IF i > Len(s) \/ c.st # "ok" THEN [c |-> c, s |-> s]
    ELSE IF isAssignNode(s[i])
        THEN LET c1 == Eval(c, s[i])
             IN  sliceFirstPass(c1, [s EXCEPT ![i] = c1.val], i + 1)
    ELSE sliceFirstPass(c, s, i + 1)

\* The second loop: every element is evaluated and must be scalar.
sliceSecondPass(c, s, i, v) ==
    IF i > Len(s) THEN NewVector(c, v)
    ELSE LET c1 == Eval(c, s[i])
         IN  IF c1.st # "ok" THEN c1
             ELSE IF ~isScalar(c1.val)
                 THEN Errorf(c1, "vector element must be scalar")
             ELSE sliceSecondPass(c1, s, i + 1, Append(v, c1.val))

sliceExprEval(c, s) ==
    LET p == sliceFirstPass(c, s.elems, 1)
    IN  IF p.c.st # "ok" THEN p.c ELSE sliceSecondPass(p.c, p.s, 1, <<>>)

\* mapExpr.Eval: the elements that are variables, by name.  m is a sequence
\* of <<name, value>>; a later entry of a name replaces the earlier one.
mapExprEvalFrom(c, m, i, v) ==
    IF i > Len(m) THEN Return(c, Map(v))
    ELSE IF m[i].k = "var"
        THEN LET c1 == Eval(c, m[i])
             IN  IF c1.st # "ok" THEN c1
                 ELSE mapExprEvalFrom(c1, m, i + 1,
                        [n \in DOMAIN v \cup {m[i].name} |->
                            IF n = m[i].name THEN c1.val ELSE v[n]])
    ELSE mapExprEvalFrom(c, m, i + 1, v)

mapExprEval(c, m) == mapExprEvalFrom(c, m.elems, 1, << >>)

\* Eval through the Expr interface.  A value evaluates to itself; an
\* Assignment evaluates, through the value it embeds, to that value.
Eval(c, e) ==
    IF c.st # "ok" THEN c
    ELSE CASE e.k = "var" -> variableExprEval(c, e)
           [] e.k = "unary" -> unaryEval(c, e)
           [] e.k = "binary" -> binaryEval(c, e)
           [] e.k = "slice" -> sliceExprEval(c, e)
           [] e.k = "map" -> mapExprEval(c, e)
           [] e.k = "Assignment" -> Return(c, e.v)
           [] OTHER -> Return(c, e)

(***************************************************************************)
(* Tokens (scan.Token): a type, the text and the source line.              *)
(***************************************************************************)
Tok(type, text) == [type |-> type, text |-> text, line |-> 0]

eof == Tok("EOF", "")

\* value.ParseString: the text of a String token without its quotes.
ParseString(text) == SubSeq(text, 2, Len(text) - 1)

\* value.Parse: the value of a Number or Rational token, or an error.
Digits == << "0", "1", "2", "3", "4", "5", "6", "7", "8", "9" >>

ValueParse(tok) ==
    IF tok.type = "Number"
    THEN IF \E d \in 1..Len(Digits) : Digits[d] = tok.text
         THEN [v |-> IntVal((CHOOSE d \in 1..Len(Digits) :
                                Digits[d] = tok.text) - 1),
               err |-> ""]
         ELSE [v |-> Nil, err |-> "bad number syntax"]
    ELSE IF tok.text = "1/0" THEN [v |-> Nil, err |-> "zero denominator"]
    ELSE [v |-> BigRat(tok.text), err |-> ""]

\* Context.DefinedUnary, DefinedBinary, DefinedOp: the registries as they are
\* when the parser asks.
DefinedUnary(name) == name \in unaryOps

DefinedBinary(name) == name \in binaryOps

DefinedOp(name) == DefinedUnary(name) \/ DefinedBinary(name)

(***************************************************************************)
(* The parser.  Every parsing operator takes the buffered tokens and gives *)
(* a record: e the tree, str the string of a String token, toks the        *)
(* tokens left, err the error ("" when there is none).  Parser.errorf      *)
(* empties the buffer and aborts the line.                                 *)
(***************************************************************************)
errorf(msg) == [e |-> NoExpr, str |-> << >>, toks |-> << >>, err |-> msg]

Parsed(e, toks) == [e |-> e, str |-> << >>, toks |-> toks, err |-> ""]

peek(toks) == IF Len(toks) = 0 THEN eof ELSE toks[1]

\* Parser.next: the token, the tokens left, and the error of an Error token.
next(toks) ==
    LET tok == peek(toks)
        rest == IF tok.type # "EOF" THEN Tail(toks) ELSE toks
    IN  IF tok.type = "Error"
        THEN [tok |-> tok, toks |-> << >>, err |-> "scan error"]
        ELSE [tok |-> tok, toks |-> rest, err |-> ""]

RECURSIVE expr(_)
RECURSIVE index(_)
RECURSIVE vectorLoop(_, _)
RECURSIVE statementList(_)

\* The closing token n that must follow r: ")" "]" "}".
expectTok(r, n, type, msg) ==
    IF n.err # "" THEN errorf(n.err)
    ELSE IF n.tok.type # type THEN errorf(msg)
    ELSE [r EXCEPT !.toks = n.toks]

expect(r, type, msg) ==
    IF r.err # "" THEN r ELSE expectTok(r, next(r.toks), type, msg)

\* number: a variable, a string (str, with no expression), a number or a
\* parenthesised expression.
numberValue(p, toks) ==
    IF p.err # "" THEN errorf(p.err) ELSE Parsed(p.v, toks)

number(tok, toks) ==
    CASE tok.type = "Identifier" -> Parsed(variableExpr(tok.text), toks)
      [] tok.type = "String" ->
            [e |-> NoExpr, str |-> ParseString(tok.text), toks |-> toks,
             err |-> ""]
      [] tok.type \in {"Number", "Rational"} ->
            numberValue(ValueParse(tok), toks)
      [] tok.type = "LeftParen" ->
            expect(expr(toks), "RightParen", "expected right paren")
      [] OTHER -> Parsed(NoExpr, toks)

\* The element a call of number adds to the slice: the expression, or the
\* String when there is none.
atom(r) == IF r.e = NoExpr THEN String(r.str) ELSE r.e

\* Whether the token continues the vector: an atom begins, and it is not an
\* identifier registered as an operator.
continuesVector(tok) ==
    /\ tok.type \in {"LeftParen", "Identifier", "Number", "Rational", "String"}
    /\ ~(tok.type \in {"LeftParen", "Identifier"} /\ DefinedOp(tok.text))

numberNext(n) == number(n.tok, n.toks)

vectorNext(slice, r) ==
    IF r.err # "" THEN r ELSE vectorLoop(Append(slice, atom(r)), r.toks)

\* The loop of numberOrVector over the atoms that follow the first.
vectorLoop(slice, toks) ==
    IF ~continuesVector(peek(toks)) THEN Parsed(slice, toks)
    ELSE vectorNext(slice, numberNext(next(toks)))

\* A slice of one element is that element.
vectorDone(l) ==
    IF l.err # "" THEN l
    ELSE IF Len(l.e) = 1 THEN Parsed(l.e[1], l.toks)
    ELSE Parsed(sliceExpr(l.e), l.toks)

vectorFirst(r) ==
    IF r.err # "" THEN r ELSE vectorDone(vectorLoop(<< atom(r) >>, r.toks))

numberOrVector(tok, toks) == vectorFirst(number(tok, toks))

\* index: zero or more "[" expr "]" after the operand r.
indexRest(r, i) ==
    IF i.err # "" THEN i ELSE index(Parsed(binary(r.e, "[]", i.e), i.toks))

index(r) ==
    IF peek(r.toks).type # "LeftBrack" THEN r
    ELSE indexRest(r, expect(expr(next(r.toks).toks), "RightBrack",
                             "expected right bracket"))

\* A unary operator applied to the expression r that follows it.
unaryRest(op, r) ==
    IF r.err # "" THEN r ELSE Parsed(unary(op, r.e), r.toks)

\* "{" expr "}": the expression r read as a map of its elements.
mapRest(r) ==
    IF r.err # "" THEN r
    ELSE expect(Parsed(IF r.e.k = "slice" THEN mapExpr(r.e.elems)
                       ELSE mapExpr(<< r.e >>), r.toks),
                "RightBrace", "expected right brace")

\* A classification that does not ask the registry.
isUnaryOpUnregistered(tok) == tok.type = "Operator"

\* Whether an operand that begins with tok is a unary application.
isUnaryOp(tok) ==
    \/ tok.type = "Operator"
    \/ tok.type = "Identifier" /\ DefinedUnary(tok.text)

operandIndex(r) == IF r.err # "" THEN r ELSE index(r)

operand(tok, toks) ==
    operandIndex(
        IF isUnaryOp(tok) THEN unaryRest(tok.text, expr(toks))
        ELSE IF tok.type \in {"Identifier", "Number", "Rational", "String",
                              "LeftParen"}
            THEN numberOrVector(tok, toks)
        ELSE IF tok.type = "LeftBrace" THEN mapRest(expr(toks))
        ELSE errorf("operand: unexpected"))

\* The binary node of left, op and the expression r to the right.
binaryNode(left, op, r) ==
    IF r.err # "" THEN r ELSE Parsed(binary(left, op, r.e), r.toks)

binaryRest(left, op, n) ==
    IF n.err # "" THEN errorf(n.err) ELSE binaryNode(left, op, expr(n.toks))

\* Whether tok, after an operand, is a binary operator.
isBinaryOp(tok) ==
    \/ tok.type = "Identifier" /\ DefinedBinary(tok.text)
    \/ tok.type \in {"Assign", "Operator"}

exprOp(o, tok) ==
    IF tok.type \in {"EOF", "RightParen", "RightBrack", "Semicolon",
                     "RightBrace"}
    THEN o
    ELSE IF isBinaryOp(tok) THEN binaryRest(o.e, tok.text, next(o.toks))
    ELSE errorf("after expression: unexpected")

exprRest(o) == IF o.err # "" THEN o ELSE exprOp(o, peek(o.toks))

exprTok(n) ==
    IF n.err # "" THEN errorf(n.err)
    ELSE IF peek(n.toks).type = "Assign" /\ n.tok.type # "Identifier"
        THEN errorf("cannot assign to")
    ELSE exprRest(operand(n.tok, n.toks))

expr(toks) == exprTok(next(toks))

\* statementList: r.e is the sequence of the statements' trees.
statementMore(r, more) ==
    IF more.err # "" THEN more ELSE Parsed(<< r.e >> \o more.e, more.toks)

statementRest(r) ==
    IF r.err # "" THEN r
    ELSE IF peek(r.toks).type # "Semicolon" THEN Parsed(<< r.e >>, r.toks)
    ELSE statementMore(r, statementList(next(r.toks).toks))

statementList(toks) == statementRest(expr(toks))

\* An end of the list that takes whatever token follows.
expressionEndAnyToken(r, n) ==
    IF n.err # "" THEN errorf(n.err) ELSE r

expressionEnd(r, n) ==
    IF n.err # "" THEN errorf(n.err)
    ELSE IF n.tok.type # "EOF" THEN errorf("exprList: unexpected")
    ELSE r

expressionRest(r) ==
    IF r.err # "" THEN r ELSE expressionEnd(r, next(r.toks))

expressionList(toks) == expressionRest(statementList(toks))

(***************************************************************************)
(* ProgString: the text of a tree, as the sequence of its characters.      *)
(***************************************************************************)
\* The decimal digits of a natural number.
RECURSIVE Decimal(_)
Decimal(n) ==
    IF n < 10 THEN << Digits[n + 1] >>
    ELSE Decimal(n \div 10) \o << Digits[(n % 10) + 1] >>

\* Int.ProgString and BigRat.ProgString: the text the value was parsed from.
IntProgString(v) ==
    IF v.n < 0 THEN << "-" >> \o Decimal(0 - v.n) ELSE Decimal(v.n)

BigRatProgString(v) ==
    IF v.text = "1/2" THEN << "1", "/", "2" >> ELSE << v.text >>

\* String.ProgString: string(s), the code points with no quotes.
StringProgString(v) == v.s

isCompound(x) ==
    x.k \notin {"Char", "Int", "BigInt", "BigRat", "BigFloat", "Vector",
                "Matrix", "String", "slice", "var"}

allChars(s) == \A i \in 1..Len(s) : s[i].k = "Char"

RECURSIVE ProgString(_)
RECURSIVE sliceProgStringFrom(_, _)
RECURSIVE mapProgStringFrom(_, _)

\* "(" text ")" for a compound tree, the text for any other.
Parenthesised(x) ==
    IF isCompound(x) THEN << "(" >> \o ProgString(x) \o << ")" >>
    ELSE ProgString(x)

\* sliceExpr.ProgString, the elements that are not all Char: blanks between
\* the elements, parentheses around the compound ones.
sliceProgStringFrom(s, i) ==
    IF i > Len(s) THEN << >>
    ELSE (IF i > 1 THEN << " " >> ELSE << >>)
         \o Parenthesised(s[i]) \o sliceProgStringFrom(s, i + 1)

sliceExprProgString(s) ==
    IF allChars(s.elems)
    THEN << "'" >> \o [i \in 1..Len(s.elems) |-> s.elems[i].c] \o << "'" >>
    ELSE sliceProgStringFrom(s.elems, 1)

mapProgStringFrom(m, i) ==
    IF i > Len(m) THEN << >>
    ELSE (IF m[i].k = "var" THEN << m[i].name, " " >> ELSE << >>)
         \o mapProgStringFrom(m, i + 1)

mapExprProgString(m) ==
    << "{", " " >> \o mapProgStringFrom(m.elems, 1) \o << "}" >>

unaryProgString(u) == << u.op, " " >> \o ProgString(u.right)

binaryProgString(b) ==
    IF b.op = "[]"
    THEN Parenthesised(b.left) \o << "[" >> \o ProgString(b.right) \o << "]" >>
    ELSE Parenthesised(b.left) \o << " ", b.op, " " >> \o ProgString(b.right)

ProgString(e) ==
    CASE e.k = "var" -> << e.name >>
      [] e.k = "unary" -> unaryProgString(e)
      [] e.k = "binary" -> binaryProgString(e)
      [] e.k = "slice" -> sliceExprProgString(e)
      [] e.k = "map" -> mapExprProgString(e)
      [] e.k = "Int" -> IntProgString(e)
      [] e.k = "BigRat" -> BigRatProgString(e)
      [] e.k = "String" -> StringProgString(e)
      [] e.k = "Assignment" -> ProgString(e.v)
      [] OTHER -> << >>

(***************************************************************************)
(* The scanner, on the characters of a text: blanks separate the tokens;   *)
(* a run of digits (with "/") is a Number (a Rational), a run of letters   *)
(* and digits an Identifier, and a quoted run of characters a String.      *)
(***************************************************************************)
Letters == {"a", "b", "f", "g", "u", "v", "w", "x", "y"}

DigitChars == {Digits[d] : d \in 1..Len(Digits)}

Punctuation ==
    [c \in {"(", ")", "[", "]", "{", "}", ";", "=", "+", "-"} |->
        CASE c = "(" -> "LeftParen"
          [] c = ")" -> "RightParen"
          [] c = "[" -> "LeftBrack"
          [] c = "]" -> "RightBrack"
          [] c = "{" -> "LeftBrace"
          [] c = "}" -> "RightBrace"
          [] c = ";" -> "Semicolon"
          [] c = "=" -> "Assign"
          [] OTHER -> "Operator"]

\* The position after the run of characters of set cs that begins at i.
RECURSIVE RunEnd(_, _, _)
RunEnd(text, i, cs) ==
    IF i > Len(text) \/ text[i] \notin cs THEN i ELSE RunEnd(text, i + 1, cs)

\* The characters text[i..j-1] as one string.
RECURSIVE Joined(_, _, _)
Joined(text, i, j) ==
    IF i >= j THEN "" ELSE text[i] \o Joined(text, i + 1, j)

\* The position of the quote that closes a string opened before i, or 0.
RECURSIVE Closing(_, _)
Closing(text, i) ==
    IF i > Len(text) THEN 0
    ELSE IF text[i] = "'" THEN i ELSE Closing(text, i + 1)

RECURSIVE ScanFrom(_, _, _)

scanNumber(text, i, j, toks) ==
    ScanFrom(text, j,
             Append(toks, Tok(IF \E n \in i..(j - 1) : text[n] = "/"
                              THEN "Rational" ELSE "Number",
                              Joined(text, i, j))))

scanIdentifier(text, i, j, toks) ==
    ScanFrom(text, j, Append(toks, Tok("Identifier", Joined(text, i, j))))

scanString(text, i, j, toks) ==
    IF j = 0 THEN Append(toks, Tok("Error", "unterminated quoted string"))
    ELSE ScanFrom(text, j + 1, Append(toks, Tok("String", SubSeq(text, i, j))))

ScanFrom(text, i, toks) ==
    IF i > Len(text) THEN toks
    ELSE CASE text[i] = " " -> ScanFrom(text, i + 1, toks)
           [] text[i] \in DigitChars ->
                scanNumber(text, i, RunEnd(text, i, DigitChars \cup {"/"}),
                           toks)
           [] text[i] \in Letters ->
                scanIdentifier(text, i,
                               RunEnd(text, i, Letters \cup DigitChars), toks)
           [] text[i] = "'" -> scanString(text, i, Closing(text, i + 1), toks)
           [] text[i] \in DOMAIN Punctuation ->
                ScanFrom(text, i + 1,
                         Append(toks, Tok(Punctuation[text[i]], text[i])))
           [] OTHER -> Append(toks, Tok("Error", "bad token"))

Scan(text) == ScanFrom(text, 1, << >>)

(***************************************************************************)
(* The heap between lines.  Go does not show the address of a backing      *)
(* array, and an array no variable reaches is garbage: the heap is kept as *)
(* the arrays reachable from the symbol table, numbered in the order in    *)
(* which the names reach them.                                             *)
(***************************************************************************)
NameSeq == << "f", "g", "u", "v", "w", "x", "y" >>

Pos(seq, a) == CHOOSE i \in 1..Len(seq) : seq[i] = a

InSeq(seq, a) == \E i \in 1..Len(seq) : seq[i] = a

\* The values a value holds directly.
Held(h, v) ==
    CASE v.k = "Vector" -> h[v.addr]
      [] v.k = "Map" ->
            LET ns == SelectSeq(NameSeq, LAMBDA n : n \in DOMAIN v.m)
            IN  [i \in 1..Len(ns) |-> v.m[ns[i]]]
      [] OTHER -> << >>

RECURSIVE Mark(_, _, _)
Mark(h, todo, seen) ==
    IF todo = << >> THEN seen
    ELSE LET v == Head(todo)
         IN  IF v.k = "Vector" /\ ~InSeq(seen, v.addr)
             THEN Mark(h, Held(h, v) \o Tail(todo), Append(seen, v.addr))
             ELSE IF v.k = "Map"
             THEN Mark(h, Held(h, v) \o Tail(todo), seen)
             ELSE Mark(h, Tail(todo), seen)

RECURSIVE Renamed(_, _)
Renamed(order, v) ==
    CASE v.k = "Vector" -> Vector(Pos(order, v.addr))
      [] v.k = "Map" -> Map([n \in DOMAIN v.m |-> Renamed(order, v.m[n])])
      [] OTHER -> v

Collect(g, h) ==
    LET order == Mark(h, [i \in 1..Len(NameSeq) |-> g[NameSeq[i]]], << >>)
    IN  [globals |-> [n \in Names |-> Renamed(order, g[n])],
         heap |-> [a \in 1..Len(order) |->
                     [i \in 1..Len(h[order[a]]) |->
                         Renamed(order, h[order[a]][i])]]]

(***************************************************************************)
(* Parser.readTokensToNewline: the loop over the scanner's tokens.         *)
(*   res = "true" | "false" (end of input, nothing read) | "error"         *)
(***************************************************************************)
RECURSIVE readLoop(_, _)
readLoop(toks, inp) ==
    LET tok == Head(inp)
    IN  CASE tok.type = "Error" ->
                [tokens |-> << >>, input |-> Tail(inp), res |-> "error",
                 line |-> tok.line]
          [] tok.type = "Newline" ->
                [tokens |-> toks, input |-> Tail(inp), res |-> "true",
                 line |-> tok.line]
          [] tok.type = "EOF" ->
                [tokens |-> toks, input |-> inp,
                 res |-> IF Len(toks) > 0 THEN "true" ELSE "false",
                 line |-> tok.line]
          [] OTHER -> readLoop(Append(toks, tok), Tail(inp))

\* Where the driver goes after a line: the scanner has tokens, or waits.
After(inp) == IF inp = << >> THEN "idle" ELSE "read"

NoOutcome == [st |-> "none", err |-> ""]

(***************************************************************************)
(* Source lines, as the scanner tokenises them.                            *)
(***************************************************************************)
Id(name) == Tok("Identifier", name)

Num(text) == Tok("Number", text)

Opr(text) == Tok("Operator", text)

Str(chars) == Tok("String", << "'" >> \o chars \o << "'" >>)

ASSIGN == Tok("Assign", "=")

SEMI == Tok("Semicolon", ";")

LP == Tok("LeftParen", "(")

RP == Tok("RightParen", ")")

LBRACK == Tok("LeftBrack", "[")

RBRACK == Tok("RightBrack", "]")

LBRACE == Tok("LeftBrace", "{")

RBRACE == Tok("RightBrace", "}")

DEFOP == Tok("Op", "op")

ERR == Tok("Error", "bad token")

\* v = 1 2 3
LineVec == << Id("v"), ASSIGN, Num("1"), Num("2"), Num("3") >>

\* w = v
LineAlias == << Id("w"), ASSIGN, Id("v") >>

\* x = 2
LineX == << Id("x"), ASSIGN, Num("2") >>

\* name[i] = rhs with a literal index
Single(name, i, rhs) ==
    << Id(name), LBRACK, Num(i), RBRACK, ASSIGN >> \o rhs

\* name[ix] = rhs with any index expression
Indexed(name, ix, rhs) == << Id(name), LBRACK >> \o ix \o << RBRACK, ASSIGN >> \o rhs

\* Lines about indexed assignment.
IndexLines ==
    << LineVec, LineAlias, LineX,
       Single("v", "2", << Num("9") >>),
       Single("v", "3", << Num("9") >>),
       Single("v", "0", << Num("9") >>),
       Single("v", "1", << Num("4"), Num("5") >>),
       Indexed("v", << Id("x") >>, << Num("9") >>),
       Indexed("v", << Num("1"), Num("3") >>, << Num("7"), Num("8") >>),
       Indexed("v", << Num("1"), Num("5") >>, << Num("7"), Num("8") >>),
       Indexed("v", << Num("5"), Num("1") >>, << Num("7"), Num("8") >>),
       Indexed("v", << Num("1"), Str(<< "a" >>) >>, << Num("7"), Num("8") >>),
       Indexed("v", << Num("1"), Num("2") >>, << Num("7") >>),
       Indexed("v", << Num("1"), Num("2") >>,
               << Num("7"), Num("8"), Num("9") >>),
       Indexed("v", << Num("2"), Num("3") >>, << Id("w") >>) >>

\* Lines about the target of an assignment.
TargetLines ==
    << LineVec, LineX,
       << Id("x"), Id("y"), ASSIGN, Num("3") >>,
       Single("u", "1", << Num("3") >>),
       Single("x", "1", << Num("3") >>),
       << Id("v"), LBRACK, Num("1"), RBRACK, LBRACK, Num("2"), RBRACK,
          ASSIGN, Num("3") >>,
       << Num("3"), ASSIGN, Num("4") >>,
       << LBRACE, Id("x"), RBRACE, ASSIGN, Num("3") >>,
       << Id("x"), ASSIGN, Id("y"), ASSIGN, Num("3") >>,
       << LBRACE, Id("x"), Id("v"), RBRACE >> >>

\* op f x = x
LineDefUnary == << DEFOP, Id("f"), Id("x"), ASSIGN, Id("x") >>

\* op x g y = y
LineDefBinary == << DEFOP, Id("x"), Id("g"), Id("y"), ASSIGN, Id("y") >>

\* f 3
LineF3 == << Id("f"), Num("3") >>

\* y (y=3)
LineYAssign == << Id("y"), LP, Id("y"), ASSIGN, Num("3"), RP >>

\* (y=3) y
LineAssignY == << LP, Id("y"), ASSIGN, Num("3"), RP, Id("y") >>

\* 'ab' 1
LineStrVec == << Str(<< "a", "b" >>), Num("1") >>

\* 'ab'
LineStr == << Str(<< "a", "b" >>) >>

\* Lines about operators, vector literals and embedded assignments.
OperatorLines ==
    << LineDefUnary, LineDefBinary, LineF3,
       << Num("1"), Id("g"), Num("2") >>,
       << Id("f"), ASSIGN, Num("5") >>,
       LineYAssign, LineAssignY,
       << Id("y"), ASSIGN, Num("1"), Num("2") >>,
       << LP, Id("x"), ASSIGN, Num("3"), RP, Opr("+"), Num("4") >>,
       << Opr("-"), LP, Id("x"), ASSIGN, Num("3"), RP >>,
       << Id("x"), Opr("+"), Num("1") >>,
       LineStrVec, LineStr,
       << Num("1"), LP, Num("2"), Num("3"), RP >> >>

\* x = 1; 2 )
LineSemiBad == << Id("x"), ASSIGN, Num("1"), SEMI, Num("2"), RP >>

\* x + (x = 3)
LinePlusAssign == << Id("x"), Opr("+"), LP, Id("x"), ASSIGN, Num("3"), RP >>

\* (x = 3) + y
LineAssignPlusY == << LP, Id("x"), ASSIGN, Num("3"), RP, Opr("+"), Id("y") >>

\* u[1] = (u = 7)
LineIndexSelf ==
    Single("u", "1", << LP, Id("u"), ASSIGN, Num("7"), RP >>)

\* Lines about the order in which the operands are evaluated.
OrderLines ==
    << LinePlusAssign, LineAssignPlusY, LineIndexSelf, LineX,
       << Id("y"), ASSIGN, Num("1") >> >>

\* Lines with errors.
ErrorLines ==
    << << Num("1"), ERR, Num("2"), Num("3") >>,
       << Id("x"), ASSIGN, Num("1"), ERR, Id("x"), ASSIGN, Num("5") >>,
       << ERR >>,
       << Num("2"), RP >>,
       LineSemiBad,
       << Id("x"), ASSIGN, Num("4"), SEMI, Id("x") >>,
       << RP, Id("x") >>,
       << Num("1"), Tok("Rational", "1/0"), Num("2") >>,
       << Num("1"), Tok("Rational", "1/2") >>,
       << Id("x") >>,
       << >> >>

Families == {"index", "target", "operator", "error", "order"}

Lines(fam) ==
    CASE fam = "index" -> IndexLines
      [] fam = "target" -> TargetLines
      [] fam = "operator" -> OperatorLines
      [] fam = "error" -> ErrorLines
      [] fam = "order" -> OrderLines

\* The tokens of source line n, each with its line number.
Stamp(l, n) == [i \in 1..Len(l) |-> [l[i] EXCEPT !.line = n]]

(***************************************************************************)
(* The state machine.                                                      *)
(***************************************************************************)
\* The Context: the symbol table, read through the heap, and the registries.
Snapshot(g, h, u, b) ==
    [globals |-> [n \in DOMAIN g |-> Deep(h, g[n])], unary |-> u, binary |-> b]

NoReprint == [done |-> FALSE]

NoConv == [k |-> "none"]

Init ==
    /\ input = << >>
    /\ tokens = << >>
    /\ pc = "idle"
    /\ exprs = << >>
    /\ lineOk = TRUE
    /\ globals = [n \in Names |-> Nil]
    /\ heap = << >>
    /\ unaryOps = {}
    /\ binaryOps = {}
    /\ origin \in {0, 1}
    /\ outcome = NoOutcome
    /\ values = << >>
    /\ obs = << >>
    /\ source = << >>
    /\ errLines = {}
    /\ nlines = 0
    /\ family \in Families
    /\ before = Snapshot(globals, heap, unaryOps, binaryOps)
    /\ rt = NoReprint
    /\ str = << >>
    /\ conv = NoConv

\* The user types a source line, ended by a newline or by the end of input.
Type(l, end) ==
    /\ pc = "idle"
    /\ nlines < MaxLines
    /\ nlines' = nlines + 1
    /\ input' = Stamp(Append(l, Tok(end, "")), nlines + 1)
    /\ source' = l
    /\ pc' = "read"
    /\ exprs' = << >>
    /\ lineOk' = TRUE
    /\ outcome' = NoOutcome
    /\ values' = << >>
    /\ obs' = << >>
    /\ before' = Snapshot(globals, heap, unaryOps, binaryOps)
    /\ rt' = NoReprint
    /\ UNCHANGED << tokens, globals, heap, unaryOps, binaryOps, origin,
                    errLines, family >>
    /\ UNCHANGED valueVars

\* Line, first part: the tokens of one line are read into the buffer.
readTokensToNewline ==
    /\ pc = "read"
    /\ LET r == readLoop(<< >>, input)
       IN  /\ tokens' = r.tokens
           /\ input' = r.input
           /\ pc' = CASE r.res = "true" -> "parse"
                      [] r.res = "false" -> "eof"
                      [] r.res = "error" -> After(r.input)
           /\ lineOk' = (r.res = "true")
           /\ outcome' = IF r.res = "error"
                         THEN [st |-> "error", err |-> "scan error"]
                         ELSE NoOutcome
           /\ errLines' = IF r.res = "error" THEN errLines \cup {r.line}
                          ELSE errLines
    /\ exprs' = << >>
    /\ values' = << >>
    /\ obs' = << >>
    /\ UNCHANGED << globals, heap, unaryOps, binaryOps, origin, source, nlines,
                    family, before, rt >>
    /\ UNCHANGED valueVars

\* Parser.functionDefn: "op f x = body" registers the unary f and
\* "op x g y = body" the binary g.
functionDefn(toks) ==
    IF Len(toks) >= 4 /\ toks[4].type = "Assign"
    THEN [unary |-> unaryOps \cup {toks[2].text}, binary |-> binaryOps]
    ELSE IF Len(toks) >= 5 /\ toks[5].type = "Assign"
    THEN [unary |-> unaryOps, binary |-> binaryOps \cup {toks[3].text}]
    ELSE [unary |-> unaryOps, binary |-> binaryOps]

\* Line, second part: a special command, an operator definition or an
\* expression list, parsed from the buffer.
Line ==
    /\ pc = "parse"
    /\ LET tok == peek(tokens)
           r == expressionList(tokens)
           isExpr == tok.type \notin {"EOF", "RightParen", "Op"}
           failed == isExpr /\ r.err # ""
       IN  /\ exprs' = IF isExpr /\ ~failed THEN r.e ELSE << >>
           /\ lineOk' = ~failed
           /\ outcome' = IF failed THEN [st |-> "error", err |-> r.err]
                         ELSE NoOutcome
           /\ errLines' = IF failed THEN errLines \cup {tok.line}
                          ELSE errLines
           /\ unaryOps' = IF tok.type = "Op" THEN functionDefn(tokens).unary
                          ELSE unaryOps
           /\ binaryOps' = IF tok.type = "Op" THEN functionDefn(tokens).binary
                           ELSE binaryOps
           /\ pc' = IF isExpr /\ ~failed THEN "run" ELSE After(input)
    /\ tokens' = << >>
    /\ UNCHANGED << input, globals, heap, origin, values, obs, source, nlines,
                    family, before, rt >>
    /\ UNCHANGED valueVars

\* The line driver: the trees Line returned are evaluated in order, up to
\* the first error.
RECURSIVE RunFrom(_, _, _, _)
RunFrom(c, es, i, vals) ==
    IF i > Len(es) THEN [c |-> c, vals |-> vals]
    ELSE LET c1 == Eval(c, es[i])
         IN  IF c1.st # "ok" THEN [c |-> c1, vals |-> vals]
             ELSE RunFrom(c1, es, i + 1, Append(vals, Deep(c1.heap, c1.val)))

Run ==
    /\ pc = "run"
    /\ LET c0 == [globals |-> globals, heap |-> heap, st |-> "ok", err |-> "",
                  val |-> Nil, obs |-> << >>]
           r == RunFrom(c0, exprs, 1, << >>)
           kept == Collect(r.c.globals, r.c.heap)
       IN  /\ globals' = kept.globals
           /\ heap' = kept.heap
           /\ values' = r.vals
           /\ obs' = r.c.obs
           /\ outcome' = [st |-> r.c.st, err |-> r.c.err]
           /\ pc' = IF r.c.st = "panic" THEN "crashed" ELSE After(input)
    /\ rt' = NoReprint
    /\ UNCHANGED << input, tokens, exprs, lineOk, unaryOps, binaryOps, origin,
                    source, errLines, nlines, family, before >>
    /\ UNCHANGED valueVars

\* The outcome and the values of an evaluation.
Result(r) == [st |-> r.c.st, err |-> r.c.err, vals |-> r.vals]

\* The trees of the texts, each text scanned and parsed as a line.
RECURSIVE ParseAgain(_, _, _)
ParseAgain(texts, i, trees) ==
    IF i > Len(texts) THEN [e |-> trees, err |-> ""]
    ELSE LET r == expressionList(Scan(texts[i]))
         IN  IF r.err # "" THEN [e |-> << >>, err |-> r.err]
             ELSE ParseAgain(texts, i + 1, trees \o r.e)

\* The trees Line returned are printed with ProgString; the texts are
\* scanned and parsed again, and the trees of the texts are evaluated in
\* the Context in which the line's own trees are about to be.
Reprint ==
    /\ pc = "run"
    /\ ~rt.done
    /\ LET c0 == [globals |-> globals, heap |-> heap, st |-> "ok", err |-> "",
                  val |-> Nil, obs |-> << >>]
           texts == [i \in 1..Len(exprs) |-> ProgString(exprs[i])]
           again == ParseAgain(texts, 1, << >>)
       IN  rt' = [done |-> TRUE,
                  texts |-> texts,
                  trees |-> again.e,
                  orig |-> Result(RunFrom(c0, exprs, 1, << >>)),
                  again |-> IF again.err # ""
                            THEN [st |-> "error", err |-> again.err,
                                  vals |-> << >>]
                            ELSE Result(RunFrom(c0, again.e, 1, << >>))]
    /\ UNCHANGED << input, tokens, pc, exprs, lineOk, globals, heap, unaryOps,
                    binaryOps, origin, outcome, values, obs, source, errLines,
                    nlines, family, before >>
    /\ UNCHANGED valueVars

Next ==
    \/ \E i \in 1..Len(Lines(family)) : Type(Lines(family)[i], "Newline")
    \/ \E i \in 1..Len(Lines(family)) : Type(Lines(family)[i], "EOF")
    \/ readTokensToNewline
    \/ Line
    \/ Reprint
    \/ Run

Spec == Init /\ [][Next]_vars

(***************************************************************************)
(* String.toArray and String.toType (value/string.go 33-52).  A Go string  *)
(* is its UTF-8 bytes: len(s) counts bytes, and "for i, c := range s"      *)
(* gives each code point c with the offset i of its first byte.            *)
(***************************************************************************)
\* Code points: a, e with acute accent (U+00E9), the euro sign (U+20AC).
CodePoints == {97, 233, 8364}

\* Bytes of the UTF-8 encoding of a code point.
Utf8Len(c) ==
    IF c < 128 THEN 1 ELSE IF c < 2048 THEN 2 ELSE IF c < 65536 THEN 3 ELSE 4

\* len(s) of the first n code points of s: the byte offset of the next.
RECURSIVE ByteLen(_, _)
ByteLen(s, n) == IF n = 0 THEN 0 ELSE ByteLen(s, n - 1) + Utf8Len(s[n])

\* make([]Value, len(s)), then v[i] = Char(c) at the offset of each code
\* point; the other elements stay nil.
toArray(s) ==
    [j \in 1..ByteLen(s, Len(s)) |->
        IF \E n \in 1..Len(s) : ByteLen(s, n - 1) = j - 1
        THEN Char(s[CHOOSE n \in 1..Len(s) : ByteLen(s, n - 1) = j - 1])
        ELSE Nil]

valueTypes == {"string", "vector", "matrix", "int", "map"}

one == IntVal(1)

\* value.NewMatrix: a shape and the backing elements.
NewMatrix(shape, data) == [k |-> "Matrix", shape |-> shape, data |-> data]

\* The Vector of a conversion, with its elements in place.
VectorOf(elems) == [k |-> "Vector", elems |-> elems]

toType(s, which) ==
    CASE which = "string" -> String(s)
      [] which = "vector" -> VectorOf(toArray(s))
      [] which = "matrix" -> NewMatrix(<< one >>, toArray(s))
      [] OTHER -> [k |-> "error", err |-> "cannot convert string to"]

\* A session of conversions: a String, and one call of toType on it.
InitValue ==
    /\ input = << >>
    /\ tokens = << >>
    /\ pc = "idle"
    /\ exprs = << >>
    /\ lineOk = TRUE
    /\ globals = [n \in Names |-> Nil]
    /\ heap = << >>
    /\ unaryOps = {}
    /\ binaryOps = {}
    /\ origin = 1
    /\ outcome = NoOutcome
    /\ values = << >>
    /\ obs = << >>
    /\ source = << >>
    /\ errLines = {}
    /\ nlines = 0
    /\ family = "index"
    /\ before = Snapshot(globals, heap, unaryOps, binaryOps)
    /\ rt = NoReprint
    /\ str \in UNION {[1..n -> CodePoints] : n \in 0..MaxLen}
    /\ conv = NoConv

Convert(which) ==
    /\ conv = NoConv
    /\ conv' = [k |-> "done", which |-> which, val |-> toType(str, which)]
    /\ UNCHANGED << input, tokens, pc, exprs, lineOk, globals, heap, unaryOps,
                    binaryOps, origin, outcome, values, obs, source, errLines,
                    nlines, family, before, rt, str >>

NextValue == \E which \in valueTypes : Convert(which)

SpecValue == InitValue /\ [][NextValue]_vars

(***************************************************************************)
(* Shapes of the trees and of the states the properties speak about.       *)
(***************************************************************************)
\* The source line being processed is l.  (The text of a String token is a
\* sequence and that of any other token a string: compare the types first.)
Is(l) ==
    /\ Len(source) = Len(l)
    /\ \A i \in 1..Len(l) :
          source[i].type = l[i].type /\ source[i].text = l[i].text

\* The last line's trees have been evaluated.
Evaluated == exprs # << >> /\ pc # "run"

\* The line is the single statement name[...] = rhs.
IsIndexedAssign(es) ==
    /\ Len(es) = 1
    /\ es[1].k = "binary" /\ es[1].op = "="
    /\ es[1].left.k = "binary" /\ es[1].left.op = "[]"
    /\ es[1].left.left.k = "var"

Target(es) == es[1].left.left.name

IndexExpr(es) == es[1].left.right

\* ... with a vector of indexes.
IsMultiIndexAssign(es) == IsIndexedAssign(es) /\ IndexExpr(es).k = "slice"

\* ... with one index: a literal, or a variable bound to an Int.
IsSingleIndexAssign(es) ==
    /\ IsIndexedAssign(es)
    /\ \/ IndexExpr(es).k = "Int"
       \/ IndexExpr(es).k = "var" /\ globals[IndexExpr(es).name].k = "Int"

IndexValue(es) ==
    IF IndexExpr(es).k = "Int" THEN IndexExpr(es).n
    ELSE globals[IndexExpr(es).name].n

\* What a name is bound to, read through the heap.
Bound(n) == Deep(heap, globals[n])

ValidationErrors ==
    {"rhs must be a matching vector",
     "cannot assign slices of differing lengths",
     "index must be integer", "index out of range"}

(***************************************************************************)
(* C1.  A multi-index assignment name[i1 i2 ...] = rhs that fails          *)
(* validation (rhs not a Vector, lengths differ, an index not an integer   *)
(* or out of range) modifies no element: after the failed line every name, *)
(* the target included, is bound to what it was bound to before.           *)
(***************************************************************************)
C1_FailedMultiIndexWritesNothing ==
    [][(/\ pc = "run"
        /\ IsMultiIndexAssign(exprs)
        /\ outcome'.st = "error"
        /\ outcome'.err \in ValidationErrors)
       => \A n \in Names : Bound(n)' = Bound(n)]_vars

\* v[1 5] = 7 8 has failed on its second index, with v bound to a Vector.
C1_Witness ==
    /\ Evaluated
    /\ Is(Indexed("v", << Num("1"), Num("5") >>, << Num("7"), Num("8") >>))
    /\ outcome = [st |-> "error", err |-> "index out of range"]
    /\ globals["v"].k = "Vector"

(***************************************************************************)
(* C2.  Every Vector, bound or produced as a result, has only scalar       *)
(* elements.                                                               *)
(***************************************************************************)
RECURSIVE AllScalar(_)
AllScalar(d) ==
    IF d.k # "Vector" THEN TRUE
    ELSE \A i \in 1..Len(d.elems) : d.elems[i].k \in ScalarKinds

C2_VectorElementsScalar ==
    /\ \A a \in 1..Len(heap) : \A i \in 1..Len(heap[a]) :
            heap[a][i].k \in ScalarKinds
    /\ \A i \in 1..Len(values) : AllScalar(Inner(values[i]))

(***************************************************************************)
(* C3.  An indexed assignment to a variable changes the value bound to no  *)
(* other variable.                                                         *)
(***************************************************************************)
C3_IndexedAssignSoleOwner ==
    [][(pc = "run" /\ IsIndexedAssign(exprs))
       => \A b \in Names \ {Target(exprs)} : Bound(b)' = Bound(b)]_vars

(***************************************************************************)
(* C4.  A single-index assignment name[i] = rhs on a Vector of length n    *)
(* either overwrites exactly element i - origin, when 0 <= i - origin < n, *)
(* or fails with an index-out-of-range error and leaves the vector as it   *)
(* was; it ends in no other way.                                           *)
(***************************************************************************)
C4_SingleIndexTwoOutcomes ==
    [][(/\ pc = "run"
        /\ IsSingleIndexAssign(exprs)
        /\ globals[Target(exprs)].k = "Vector")
       => LET off == IndexValue(exprs) - origin
              old == Bound(Target(exprs))
              new == Bound(Target(exprs))'
          IN  IF 0 <= off /\ off < Len(old.elems)
              THEN /\ outcome'.st = "ok"
                   /\ new.k = "Vector" /\ Len(new.elems) = Len(old.elems)
                   /\ \A j \in 1..Len(old.elems) :
                         j # off + 1 => new.elems[j] = old.elems[j]
              ELSE /\ outcome' = [st |-> "error", err |-> "index out of range"]
                   /\ new = old]_vars

(***************************************************************************)
(* C5.  An assignment whose left-hand side is neither a variable nor an    *)
(* index on a variable bound to a Vector ends in an invalid-target or      *)
(* unknown-target error, and writes nothing.                               *)
(***************************************************************************)
IsBadTarget(es) ==
    /\ Len(es) = 1
    /\ es[1].k = "binary" /\ es[1].op = "="
    /\ es[1].left.k # "var"
    /\ ~(IsIndexedAssign(es) /\ globals[Target(es)].k = "Vector")

TargetErrors == {"cannot assign", "not found"}

C5_BadTargetIsAnError ==
    [][(pc = "run" /\ IsBadTarget(exprs))
       => /\ outcome'.st = "error"
          /\ outcome'.err \in TargetErrors
          /\ \A n \in Names : Bound(n)' = Bound(n)]_vars

(***************************************************************************)
(* C6.  No call of EvalUnary or EvalBinary gets an Assignment as an        *)
(* operand, and no Assignment is stored by Assign or as a Vector element.  *)
(***************************************************************************)
C6_AssignmentUnwrapped ==
    \A i \in 1..Len(obs) :
        CASE obs[i].fn = "EvalBinary" ->
                obs[i].left.k # "Assignment" /\ obs[i].right.k # "Assignment"
          [] obs[i].fn = "EvalUnary" -> obs[i].right.k # "Assignment"
          [] OTHER -> obs[i].val.k # "Assignment"

(***************************************************************************)
(* C7.  The tokens "f 3" parse to the vector literal <f 3> while f is not  *)
(* a registered unary operator and to the unary application (f 3) once it  *)
(* is: the tree follows the registry as it is when the line is parsed.     *)
(***************************************************************************)
C7_ParseFollowsRegistry ==
    (pc = "run" /\ Is(LineF3))
    => exprs = IF "f" \in unaryOps
               THEN << unary("f", IntVal(3)) >>
               ELSE << sliceExpr(<< variableExpr("f"), IntVal(3) >>) >>

\* "f 3" parsed as a unary application, in a session whose earlier lines
\* registered f.
C7_Witness ==
    /\ pc = "run"
    /\ Is(LineF3)
    /\ "f" \in unaryOps
    /\ exprs = << unary("f", IntVal(3)) >>

(***************************************************************************)
(* C8.  Each call of Line parses the tokens of one source line, buffered   *)
(* up to the newline or the end of input, and after an error on a line     *)
(* (a parse error or an Error token, wherever it is) no token of that line *)
(* is parsed as part of a later line.                                      *)
(***************************************************************************)
C8_ErrorLineNeverParsedLater ==
    pc = "parse"
    => \A i \in 1..Len(tokens) :
          /\ tokens[i].type \notin {"Newline", "EOF", "Error"}
          /\ tokens[i].line \notin errLines

(***************************************************************************)
(* C9.  A string literal juxtaposed with another atom contributes one Char *)
(* per code point to the vector literal; a bare string literal parses to   *)
(* a String.                                                               *)
(***************************************************************************)
C9_StringDecomposedInVector ==
    /\ (pc = "run" /\ Is(LineStrVec))
       => exprs = << sliceExpr(<< Char("a"), Char("b"), IntVal(1) >>) >>
    /\ (pc = "run" /\ Is(LineStr))
       => exprs = << String(<< "a", "b" >>) >>

(***************************************************************************)
(* C10.  "y (y=3)" and "(y=3) y" both succeed and yield the vector 3 3,    *)
(* whatever y was bound to before, and the embedded assignment takes       *)
(* effect exactly once.                                                    *)
(***************************************************************************)
AssignsTo(name) ==
    Len(SelectSeq(obs, LAMBDA o : o.fn = "Assign" /\ o.name = name))

C10_EmbeddedAssignmentFirst ==
    (Evaluated /\ (Is(LineYAssign) \/ Is(LineAssignY)))
    => /\ outcome.st = "ok"
       /\ values = << [k |-> "Vector", elems |-> << IntVal(3), IntVal(3) >>] >>
       /\ AssignsTo("y") = 1
       /\ globals["y"] = IntVal(3)

\* "y (y=3)" evaluated as the first line of a session, y unbound before it.
C10_Witness ==
    /\ Evaluated
    /\ Is(LineYAssign)
    /\ nlines = 1
    /\ outcome.st = "ok"

(***************************************************************************)
(* C11.  Converting a String to a Vector gives one Char for each code      *)
(* point of the string, in order: the Vector is as long as the string has  *)
(* code points and no element is missing.                                  *)
(***************************************************************************)
C11_VectorOfCodePoints ==
    (conv.k = "done" /\ conv.which = "vector")
    => /\ conv.val.k = "Vector"
       /\ Len(conv.val.elems) = Len(str)
       /\ \A i \in 1..Len(str) : conv.val.elems[i] = Char(str[i])

(***************************************************************************)
(* C12.  The Matrix of a String is a single row as long as the string has  *)
(* code points, and it has as many backing elements as the product of its  *)
(* shape.                                                                  *)
(***************************************************************************)
RECURSIVE Product(_)
Product(shape) ==
    IF shape = << >> THEN 1 ELSE Head(shape).n * Product(Tail(shape))

C12_MatrixOfStringShape ==
    (conv.k = "done" /\ conv.which = "matrix")
    => /\ conv.val.k = "Matrix"
       /\ Len(conv.val.shape) >= 1
       /\ conv.val.shape[Len(conv.val.shape)] = IntVal(Len(str))
       /\ \A i \in 1..(Len(conv.val.shape) - 1) : conv.val.shape[i] = one
       /\ Len(conv.val.data) = Product(conv.val.shape)

(***************************************************************************)
(* C13.  The text ProgString gives for a tree with no assignment, scanned  *)
(* and parsed again under the same registries, is a tree that evaluates to *)
(* the same outcome: the same values, or an error where the tree errs.     *)
(***************************************************************************)
\* Trees of numbers, strings, variables, vector literals, unary and binary
\* applications and index expressions.
RECURSIVE NoAssignment(_)
NoAssignment(e) ==
    CASE e.k = "var" -> TRUE
      [] e.k = "unary" -> NoAssignment(e.right)
      [] e.k = "binary" ->
            e.op # "=" /\ NoAssignment(e.left) /\ NoAssignment(e.right)
      [] e.k = "slice" ->
            \A i \in 1..Len(e.elems) : NoAssignment(e.elems[i])
      [] e.k \in {"Int", "BigRat", "String"} -> TRUE
      [] OTHER -> FALSE

C13_ReparseSameOutcome ==
    (rt.done /\ \A i \in 1..Len(exprs) : NoAssignment(exprs[i]))
    => /\ (rt.again.st = "ok") = (rt.orig.st = "ok")
       /\ rt.orig.st = "ok" => rt.again.vals = rt.orig.vals

(***************************************************************************)
(* C14.  A syntax error in a line leaves the Context as it was before the  *)
(* line: the whole statement list is parsed before any statement is        *)
(* evaluated, so in "x = 1; 2 )" the assignment never takes effect.        *)
(* (A syntax error is one the parser reports for the buffered tokens; an   *)
(* Error token of the scanner is the matter of C8.)                        *)
(***************************************************************************)
Context == Snapshot(globals, heap, unaryOps, binaryOps)

C14_SyntaxErrorLeavesContext ==
    /\ (~lineOk /\ outcome.st = "error" /\ outcome.err # "scan error")
       => (Context = before /\ exprs = << >> /\ pc # "run")
    /\ Is(LineSemiBad) => (Context = before /\ pc # "run")

\* "x = 1; 2 )" has been rejected, with x bound to 4 before and after it.
C14_Witness ==
    /\ Is(LineSemiBad)
    /\ pc = "idle"
    /\ ~lineOk
    /\ outcome = [st |-> "error", err |-> "exprList: unexpected"]
    /\ before.globals["x"] = IntVal(4)
    /\ globals["x"] = IntVal(4)

(***************************************************************************)
(* C15.  A binary node evaluates its right operand before its left, and    *)
(* an assignment its right-hand side before the target is looked up:       *)
(* "x + (x = 3)" uses the new x on the left even when x was unbound;       *)
(* "(x = 3) + y" with y unbound fails on y and leaves x as it was.         *)
(***************************************************************************)
C15_RightOperandFirst ==
    /\ (Evaluated /\ Is(LinePlusAssign))
       => /\ outcome.st = "ok"
          /\ values = << IntVal(6) >>
          /\ globals["x"] = IntVal(3)
    /\ (Evaluated /\ Is(LineAssignPlusY) /\ before.globals["y"] = Nil)
       => /\ outcome = [st |-> "error", err |-> "undefined variable"]
          /\ Context = before
    /\ (Evaluated /\ Is(LineIndexSelf) /\ before.globals["u"] = Nil)
       => /\ outcome.err # "not found"
          /\ globals["u"] = IntVal(7)

\* "x + (x = 3)" evaluated to 6 in a session in which x was unbound.
C15_Witness ==
    /\ Evaluated
    /\ Is(LinePlusAssign)
    /\ before.globals["x"] = Nil
    /\ values = << IntVal(6) >>

====
